---- MODULE Spec2Model ----
(***************************************************************************)
(* Model of bludyh/wolf, the identity store (apps/rest/x509.cpp) and the   *)
(* HTTPS acceptor (src/wolf/rest/custom-https.cpp).                        *)
(*                                                                         *)
(* Identity store: the functions of namespace x509 are operators over the  *)
(* in-memory OpenSSL objects and a two-path file system; one action per    *)
(* function applies it to inputs the caller and the environment choose.    *)
(* The two paths of a persisted identity are distinct files.               *)
(*                                                                         *)
(* Acceptor: each connection carries its accept, handshake and timer       *)
(* operations; an operation completes (the network, the TLS engine or the  *)
(* clock decides how) and its completion handler runs later, one handler   *)
(* at a time, as on the io_service the server runs on.                     *)
(***************************************************************************)
EXTENDS Integers, Sequences, FiniteSets, TLC

VARIABLES
    files,      \* path -> file on disk (presence and PEM content)
    access,     \* path -> "ok" | "denied" (open fails) | "staterr" (stat fails)
    pkey,       \* EVP_PKEY* the caller holds from generate_key()
    x509,       \* X509* the caller holds from generate_x509()
    op,         \* the operation that ran last, with its arguments
    ret,        \* how it came back: "true","false","null","object","throw","crash"
    obj,        \* the object the last cert_from_* / pkey_from_file returned
    point,      \* write_to_disk: the statement it returned from
    persisted,  \* write_to_disk returned true and nothing was written or generated since
    leaked,     \* temporaries the last operation acquired and did not release
    fresh,      \* write_to_disk: neither file existed when it was called
    conn,       \* connection -> its socket, handshake, timer and what was called on it
    created,    \* connections create_connection() has made so far
    started,    \* start() was called
    acceptorOpen, \* the acceptor is open: stop() has not closed it
    stopped,    \* handler_runner->stop() ran: continue_lock() yields no lock
    got         \* the get_client_cert() that just returned: the connection asked, the answer

storeVars == <<files, access, pkey, x509, op, ret, obj, point, persisted, leaked, fresh>>
acceptorVars == <<conn, created, started, acceptorOpen, stopped, got>>
vars == <<storeVars, acceptorVars>>

-----------------------------------------------------------------------------
(* Bounds *)

\* number of distinct RSA key materials RSA_generate_key_ex can produce
MaxKeyId == 2
\* number of connections the acceptor creates
MaxConns == 3

(* Program constants *)
RSA_BITS == 2048
RSA_F4 == 65537
SERIAL == 1
X509_VERSION == 2
valid_years == 630720000
\* config.timeout_request, seconds
timeout_request == 5

KeyIds == 1..MaxKeyId

KeyPath == "key.pem"
CertPath == "cert.pem"
Paths == {KeyPath, CertPath}

-----------------------------------------------------------------------------
(* OpenSSL objects *)

NULL == [null |-> TRUE]

\* RSA_new(): an RSA structure holding no key
RSA_new == [bits |-> 0, e |-> 0, id |-> 0]

\* RSA_generate_key_ex(rsa, bits, e, cb): fills rsa on success, leaves it on failure
RSA_generate_key_ex(rsa, bits, e, id, ok) ==
    IF ok THEN [bits |-> bits, e |-> e, id |-> id] ELSE rsa

HasKey(rsa) == rsa.id # 0

\* the public half of an EVP_PKEY, as X509_set_pubkey / X509_get_pubkey see it
PublicOf(k) == [pbits |-> k.rsa.bits, pe |-> k.rsa.e, pid |-> k.rsa.id]
NoPubKey == [nopub |-> TRUE]
NoSig == [nosig |-> TRUE]

SubjectEntries == <<"C=IT", "O=GamesOnWhales", "CN=localhost">>

-----------------------------------------------------------------------------
(* generate_key, x509.cpp:25-43 *)

\* A null BIGNUM* or RSA* handed to BN_set_word / RSA_generate_key_ex is
\* dereferenced inside libcrypto: the process is killed.
NullDeref == "crash"

\* env: which of EVP_PKEY_new, BN_new, RSA_new, RSA_generate_key_ex and
\* EVP_PKEY_assign_RSA succeed, and the key material a successful generation yields.
\* The result of RSA_generate_key_ex is not looked at (line 35).
generate_key(pkeyAlloc, bnAlloc, rsaAlloc, genOk, assignOk, id) ==
    IF ~pkeyAlloc THEN [out |-> "return", val |-> NULL, leaked |-> {}]
    ELSE IF ~bnAlloc \/ ~rsaAlloc
         THEN [out |-> NullDeref, val |-> NULL, leaked |-> {"pkey"}]
         ELSE LET rsa == RSA_generate_key_ex(RSA_new, RSA_BITS, RSA_F4, id, genOk)
              IN  IF ~assignOk
                  THEN [out |-> "return", val |-> NULL, leaked |-> {"big_num", "rsa"}]
                  ELSE [out |-> "return", val |-> [rsa |-> rsa], leaked |-> {"big_num"}]

-----------------------------------------------------------------------------
(* generate_x509, x509.cpp:51-87 *)

X509_new ==
    [serial |-> 0, version |-> 0, notBefore |-> 0, notAfter |-> 0,
     subject |-> <<>>, issuer |-> <<>>, pubkey |-> NoPubKey, sig |-> NoSig]

\* the signed part of a certificate: everything but the signature
TBS(c) == <<c.serial, c.version, c.notBefore, c.notAfter, c.subject, c.issuer, c.pubkey>>

\* X509_set_pubkey fails, leaving the certificate as it was, for a key it
\* cannot encode; its result is not looked at (line 68)
X509_set_pubkey(c, k) ==
    IF HasKey(k.rsa) THEN [c EXCEPT !.pubkey = PublicOf(k)] ELSE c

SetNames_issuerFirst(c) ==
    [c EXCEPT !.issuer = c.subject, !.subject = SubjectEntries]

\* lines 71-77: the three entries go into the subject name, which is then
\* copied into the issuer name
SetNames(c) ==
    LET named == [c EXCEPT !.subject = SubjectEntries]
    IN  [named EXCEPT !.issuer = named.subject]

\* X509_sign(x509, pkey, EVP_sha256()): signs TBS(c) with the private key
X509_sign(c, k, signOk) ==
    IF HasKey(k.rsa) /\ signOk
    THEN [ok |-> TRUE, cert |-> [c EXCEPT !.sig = [signer |-> k.rsa.id, tbs |-> TBS(c)]]]
    ELSE [ok |-> FALSE, cert |-> c]

\* X509_verify(cert, key): the signature is over this certificate, by this key
X509_verify(c, pub) ==
    /\ c.sig # NoSig
    /\ pub # NoPubKey
    /\ c.sig.signer = pub.pid
    /\ c.sig.tbs = TBS(c)

generate_x509(k, allocOk, signOk) ==
    IF ~allocOk THEN NULL
    ELSE LET c1 == [X509_new EXCEPT !.serial = SERIAL, !.version = X509_VERSION,
                                    !.notBefore = 0, !.notAfter = valid_years]
             c2 == X509_set_pubkey(c1, k)
             c3 == SetNames(c2)
             s  == X509_sign(c3, k, signOk)
         IN  IF ~s.ok THEN NULL ELSE s.cert

-----------------------------------------------------------------------------
(* PEM and DER: what PEM_write_* puts out and PEM_read_bio_* takes in *)

\* a PEM text: the label of its BEGIN line, the DER it carries, and whether
\* the END line is there
NoPem == [label |-> "", der |-> <<>>, terminated |-> FALSE]

i2d_PrivateKey(k) == <<k.rsa.bits, k.rsa.e, k.rsa.id, k.rsa.id>>
d2i_PrivateKey(der) == [rsa |-> [bits |-> der[1], e |-> der[2], id |-> der[3]]]

i2d_PUBKEY(pub) == <<pub.pbits, pub.pe, pub.pid>>

i2d_sig(sig) == IF sig = NoSig THEN <<>> ELSE <<sig.signer, sig.tbs>>
d2i_sig(der) == IF der = <<>> THEN NoSig ELSE [signer |-> der[1], tbs |-> der[2]]

i2d_pub(pub) == IF pub = NoPubKey THEN <<>> ELSE i2d_PUBKEY(pub)
d2i_pub(der) ==
    IF der = <<>> THEN NoPubKey ELSE [pbits |-> der[1], pe |-> der[2], pid |-> der[3]]

i2d_X509(c) ==
    <<c.serial, c.version, c.notBefore, c.notAfter, c.subject, c.issuer,
      i2d_pub(c.pubkey), i2d_sig(c.sig)>>
d2i_X509(der) ==
    [serial |-> der[1], version |-> der[2], notBefore |-> der[3], notAfter |-> der[4],
     subject |-> der[5], issuer |-> der[6], pubkey |-> d2i_pub(der[7]), sig |-> d2i_sig(der[8])]

\* PEM_write_PrivateKey / PEM_write_bio_PrivateKey: nothing comes out for a
\* key that holds no RSA material
PEM_PrivateKey(k) ==
    IF k # NULL /\ HasKey(k.rsa)
    THEN [label |-> "PRIVATE KEY", der |-> i2d_PrivateKey(k), terminated |-> TRUE]
    ELSE NoPem

PEM_PUBKEY(pub) ==
    IF pub # NoPubKey /\ pub.pid # 0
    THEN [label |-> "PUBLIC KEY", der |-> i2d_PUBKEY(pub), terminated |-> TRUE]
    ELSE NoPem

PEM_X509(c) ==
    IF c # NULL
    THEN [label |-> "CERTIFICATE", der |-> i2d_X509(c), terminated |-> TRUE]
    ELSE NoPem

\* what is left of a text that was cut short: nothing, or all but its end
Truncated(pem) ==
    [label |-> pem.label, der |-> SubSeq(pem.der, 1, Len(pem.der) - 1), terminated |-> FALSE]

\* PEM_read_bio_X509(bio, ...): a complete CERTIFICATE block, or NULL
PEM_read_bio_X509(pem) ==
    IF pem.label = "CERTIFICATE" /\ pem.terminated
    THEN d2i_X509(pem.der)
    ELSE NULL

\* PEM_read_bio_PrivateKey(bio, ...): a complete PRIVATE KEY block, or NULL
PEM_read_bio_PrivateKey(pem) ==
    IF pem.label = "PRIVATE KEY" /\ pem.terminated
    THEN d2i_PrivateKey(pem.der)
    ELSE NULL

-----------------------------------------------------------------------------
(* The file system *)

NoFile == [exists |-> FALSE, pem |-> NoPem]
FileOf(pem) == [exists |-> TRUE, pem |-> pem]

\* stat(2) as boost::filesystem::status sees it
Stat(fs, acc, p) ==
    IF acc[p] = "staterr" THEN "error"
    ELSE IF fs[p].exists THEN "found" ELSE "not_found"

\* boost::filesystem::exists(p): throws filesystem_error when the status of p
\* cannot be determined
fs_exists(fs, acc, p) ==
    LET st == Stat(fs, acc, p)
    IN  IF st = "error" THEN "throw" ELSE IF st = "found" THEN "true" ELSE "false"

\* fopen(p, "wb"): creates or truncates
fopen_wb(fs, acc, p) ==
    IF acc[p] = "ok"
    THEN [ok |-> TRUE, fs |-> [fs EXCEPT ![p] = FileOf(NoPem)]]
    ELSE [ok |-> FALSE, fs |-> fs]

\* BIO_read_filename(bio, p) > 0
CanRead(fs, acc, p) == acc[p] = "ok" /\ fs[p].exists

-----------------------------------------------------------------------------
(* write_to_disk, x509.cpp:150-184 *)

IoOutcomes == {"ok", "write_fail", "flush_fail"}

WriteAndClose_rollback(fs, p, pem, io, rest) ==
    IF pem = NoPem \/ io # "ok"
    THEN [ret |-> FALSE, fs |-> [q \in Paths |-> NoFile]]
    ELSE [ret |-> TRUE, fs |-> [fs EXCEPT ![p] = FileOf(pem)]]

\* PEM_write_PrivateKey / PEM_write_X509 into the FILE* just opened on p,
\* then fclose. The text goes through the stdio buffer:
\*   "ok"          it reaches the disk
\*   "write_fail"  the write fails, PEM_write_* returns 0
\*   "flush_fail"  the text is buffered, PEM_write_* returns 1, and the flush
\*                 inside fclose fails; the result of fclose is not looked at
\* rest: what a failed write leaves in the file
WriteAndClose(fs, p, pem, io, rest) ==
    IF pem = NoPem THEN [ret |-> FALSE, fs |-> fs]
    ELSE IF io = "ok" THEN [ret |-> TRUE, fs |-> [fs EXCEPT ![p] = FileOf(pem)]]
    ELSE [ret |-> (io = "flush_fail"), fs |-> [fs EXCEPT ![p] = FileOf(rest)]]

write_to_disk(k, pkey_filename, c, cert_filename, fs, acc, kio, cio, cut) ==
    LET o1 == fopen_wb(fs, acc, pkey_filename)
        kpem == PEM_PrivateKey(k)
        w1 == WriteAndClose(o1.fs, pkey_filename, kpem, kio,
                            IF cut THEN Truncated(kpem) ELSE NoPem)
        o2 == fopen_wb(w1.fs, acc, cert_filename)
        cpem == PEM_X509(c)
        w2 == WriteAndClose(o2.fs, cert_filename, cpem, cio,
                            IF cut THEN Truncated(cpem) ELSE NoPem)
    IN  IF ~o1.ok THEN [ret |-> FALSE, fs |-> o1.fs, point |-> "key_open"]
        ELSE IF ~w1.ret THEN [ret |-> FALSE, fs |-> w1.fs, point |-> "key_write"]
        ELSE IF ~o2.ok THEN [ret |-> FALSE, fs |-> o2.fs, point |-> "cert_open"]
        ELSE IF ~w2.ret THEN [ret |-> FALSE, fs |-> w2.fs, point |-> "cert_write"]
        ELSE [ret |-> TRUE, fs |-> w2.fs, point |-> "end"]

-----------------------------------------------------------------------------
(* cert_exists, x509.cpp:191-193 *)

cert_exists_either(fs, acc, pkey_filename, cert_filename) ==
    LET a == fs_exists(fs, acc, pkey_filename)
        b == fs_exists(fs, acc, cert_filename)
    IN  IF a = "throw" \/ b = "throw" THEN "throw"
        ELSE IF a = "true" \/ b = "true" THEN "true" ELSE "false"

\* exists(key) && exists(cert): the second is not evaluated when the first is false
cert_exists(fs, acc, pkey_filename, cert_filename) ==
    LET a == fs_exists(fs, acc, pkey_filename)
    IN  IF a = "true" THEN fs_exists(fs, acc, cert_filename) ELSE a

-----------------------------------------------------------------------------
(* cert_from_string, cert_from_file, pkey_from_file, x509.cpp:92-138 *)

cert_from_string(text) == [val |-> PEM_read_bio_X509(text), leaked |-> {}]

cert_from_file_noOpenCheck(fs, acc, cert_path) ==
    [val |-> PEM_read_bio_X509(fs[cert_path].pem), leaked |-> {}]

\* the BIO is not freed on the early return (lines 112-115)
cert_from_file(fs, acc, cert_path) ==
    IF ~CanRead(fs, acc, cert_path) THEN [val |-> NULL, leaked |-> {"bio"}]
    ELSE [val |-> PEM_read_bio_X509(fs[cert_path].pem), leaked |-> {}]

pkey_from_file(fs, acc, pkey_path) ==
    IF ~CanRead(fs, acc, pkey_path) THEN [val |-> NULL, leaked |-> {"bio"}]
    ELSE [val |-> PEM_read_bio_PrivateKey(fs[pkey_path].pem), leaked |-> {}]

-----------------------------------------------------------------------------
(* get_key_content, get_pkey_content, get_cert_public_key, x509.cpp:205-240 *)

\* the text is what the encoder left pending in the memory BIO; the calloc'ed
\* copy buffer is not freed
get_key_content(k, pub, private_key) ==
    [text |-> IF private_key THEN PEM_PrivateKey(k) ELSE PEM_PUBKEY(pub),
     leaked |-> {"key"}]

get_pkey_content(k) == get_key_content(k, NoPubKey, TRUE)

\* X509_get_pubkey hands out a new reference, which is not released
get_cert_public_key(c) ==
    LET r == get_key_content(NULL, c.pubkey, FALSE)
    IN  [text |-> r.text, leaked |-> r.leaked \cup {"pkey"}]

-----------------------------------------------------------------------------
(* The identity store as a state machine: one action per function *)

Op(name, path, text, kio, cio) ==
    [name |-> name, path |-> path, text |-> text, kio |-> kio, cio |-> cio]
NoOp == Op("none", "", NoPem, "", "")

StoreInit ==
    /\ files = [p \in Paths |-> NoFile]
    /\ access = [p \in Paths |-> "ok"]
    /\ pkey = NULL
    /\ x509 = NULL
    /\ op = NoOp
    /\ ret = "none"
    /\ obj = NULL
    /\ point = "none"
    /\ persisted = FALSE
    /\ leaked = {}
    /\ fresh = FALSE

\* a crash ends the process
Alive == ret # "crash"

RetOfObject(o) == IF o = NULL THEN "null" ELSE "object"
RetOfBool(b) == IF b THEN "true" ELSE "false"

GenerateKey ==
    /\ Alive
    /\ UNCHANGED acceptorVars
    /\ \E pkeyAlloc, bnAlloc, rsaAlloc, genOk, assignOk \in BOOLEAN, id \in KeyIds :
          LET r == generate_key(pkeyAlloc, bnAlloc, rsaAlloc, genOk, assignOk, id)
          IN  /\ pkey' = r.val
              /\ ret' = IF r.out = "return" THEN RetOfObject(r.val) ELSE r.out
              /\ leaked' = r.leaked
              /\ op' = Op("generate_key", "", NoPem,
                          IF pkeyAlloc /\ bnAlloc /\ rsaAlloc THEN "alloc_ok" ELSE "alloc_fail",
                          IF genOk THEN "gen_ok" ELSE "gen_fail")
    \* the caller lets go of the certificate of the key it replaces
    /\ x509' = NULL
    /\ obj' = NULL
    /\ point' = "none"
    /\ fresh' = FALSE
    /\ persisted' = FALSE
    /\ UNCHANGED <<files, access>>

GenerateX509 ==
    /\ Alive
    /\ UNCHANGED acceptorVars
    /\ pkey # NULL
    /\ \E allocOk, signOk \in BOOLEAN :
          /\ x509' = generate_x509(pkey, allocOk, signOk)
          /\ op' = Op("generate_x509", "", NoPem,
                      IF allocOk THEN "alloc_ok" ELSE "alloc_fail",
                      IF signOk /\ HasKey(pkey.rsa) THEN "sign_ok" ELSE "sign_fail")
    /\ ret' = RetOfObject(x509')
    /\ leaked' = {}
    /\ obj' = NULL
    /\ point' = "none"
    /\ fresh' = FALSE
    /\ persisted' = FALSE
    /\ UNCHANGED <<files, access, pkey>>

WriteToDisk ==
    /\ Alive
    /\ UNCHANGED acceptorVars
    /\ pkey # NULL
    /\ x509 # NULL
    /\ \E kio, cio \in IoOutcomes, cut \in BOOLEAN :
          LET r == write_to_disk(pkey, KeyPath, x509, CertPath, files, access, kio, cio, cut)
          IN  /\ files' = r.fs
              /\ ret' = RetOfBool(r.ret)
              /\ point' = r.point
              /\ fresh' = \A p \in {KeyPath, CertPath} : ~files[p].exists
              /\ persisted' = r.ret
              /\ op' = Op("write_to_disk", "", NoPem, kio, cio)
    /\ leaked' = {}
    /\ obj' = NULL
    /\ UNCHANGED <<access, pkey, x509>>

CertExists ==
    /\ Alive
    /\ UNCHANGED acceptorVars
    /\ ret' = cert_exists(files, access, KeyPath, CertPath)
    /\ op' = Op("cert_exists", "", NoPem, "", "")
    /\ leaked' = {}
    /\ obj' = NULL
    /\ point' = "none"
    /\ fresh' = FALSE
    /\ UNCHANGED <<files, access, pkey, x509, persisted>>

CertFromFile ==
    /\ Alive
    /\ UNCHANGED acceptorVars
    /\ \E p \in Paths :
          LET r == cert_from_file(files, access, p)
          IN  /\ obj' = r.val
              /\ leaked' = r.leaked
              /\ op' = Op("cert_from_file", p, NoPem, "", "")
    /\ ret' = RetOfObject(obj')
    /\ point' = "none"
    /\ fresh' = FALSE
    /\ UNCHANGED <<files, access, pkey, x509, persisted>>

PkeyFromFile ==
    /\ Alive
    /\ UNCHANGED acceptorVars
    /\ \E p \in Paths :
          LET r == pkey_from_file(files, access, p)
          IN  /\ obj' = r.val
              /\ leaked' = r.leaked
              /\ op' = Op("pkey_from_file", p, NoPem, "", "")
    /\ ret' = RetOfObject(obj')
    /\ point' = "none"
    /\ fresh' = FALSE
    /\ UNCHANGED <<files, access, pkey, x509, persisted>>

\* the strings a caller has at hand: the texts of the objects it holds and of
\* the files, whole or cut short, and the empty string
Strings ==
    LET whole == {PEM_X509(x509), PEM_PrivateKey(pkey)} \cup {files[p].pem : p \in Paths}
    IN  whole \cup {Truncated(t) : t \in whole \ {NoPem}} \cup {NoPem}

CertFromString ==
    /\ Alive
    /\ UNCHANGED acceptorVars
    /\ \E text \in Strings :
          LET r == cert_from_string(text)
          IN  /\ obj' = r.val
              /\ leaked' = r.leaked
              /\ op' = Op("cert_from_string", "", text, "", "")
    /\ ret' = RetOfObject(obj')
    /\ point' = "none"
    /\ fresh' = FALSE
    /\ UNCHANGED <<files, access, pkey, x509, persisted>>

\* get_pkey_content(pkey), x509.cpp:229-231, on the key at hand
GetPkeyContent ==
    /\ Alive
    /\ UNCHANGED acceptorVars
    /\ pkey # NULL
    /\ LET r == get_pkey_content(pkey)
       IN  /\ op' = Op("get_pkey_content", "", r.text, "", "")
           /\ leaked' = r.leaked
    /\ ret' = "text"
    /\ obj' = NULL
    /\ point' = "none"
    /\ fresh' = FALSE
    /\ UNCHANGED <<files, access, pkey, x509, persisted>>

\* get_cert_public_key(cert), x509.cpp:237-240, on the certificate at hand
GetCertPublicKey ==
    /\ Alive
    /\ UNCHANGED acceptorVars
    /\ x509 # NULL
    /\ LET r == get_cert_public_key(x509)
       IN  /\ op' = Op("get_cert_public_key", "", r.text, "", "")
           /\ leaked' = r.leaked
    /\ ret' = "text"
    /\ obj' = NULL
    /\ point' = "none"
    /\ fresh' = FALSE
    /\ UNCHANGED <<files, access, pkey, x509, persisted>>

\* cleanup(pkey, cert), x509.cpp:250-253
Cleanup ==
    /\ Alive
    /\ UNCHANGED acceptorVars
    /\ pkey # NULL
    /\ x509 # NULL
    /\ pkey' = NULL
    /\ x509' = NULL
    /\ op' = Op("cleanup", "", NoPem, "", "")
    /\ ret' = "none"
    /\ leaked' = {}
    /\ obj' = NULL
    /\ point' = "none"
    /\ fresh' = FALSE
    /\ persisted' = FALSE
    /\ UNCHANGED <<files, access>>

\* the world outside: files removed, permissions changed; what the last
\* operation reported is then no longer about the files as they are
EnvRemove ==
    /\ Alive
    /\ UNCHANGED acceptorVars
    /\ \E p \in Paths :
          /\ files[p].exists
          /\ files' = [files EXCEPT ![p] = NoFile]
    /\ op' = NoOp
    /\ ret' = "none"
    /\ obj' = NULL
    /\ point' = "none"
    /\ fresh' = FALSE
    /\ leaked' = {}
    /\ persisted' = FALSE
    /\ UNCHANGED <<access, pkey, x509>>

EnvAccess ==
    /\ Alive
    /\ UNCHANGED acceptorVars
    /\ \E p \in Paths, a \in {"ok", "denied", "staterr"} :
          /\ access[p] # a
          /\ access' = [access EXCEPT ![p] = a]
    /\ op' = NoOp
    /\ ret' = "none"
    /\ obj' = NULL
    /\ point' = "none"
    /\ fresh' = FALSE
    /\ leaked' = {}
    /\ persisted' = FALSE
    /\ UNCHANGED <<files, pkey, x509>>

StoreNext ==
    \/ GenerateKey
    \/ GenerateX509
    \/ WriteToDisk
    \/ CertExists
    \/ CertFromFile
    \/ PkeyFromFile
    \/ CertFromString
    \/ GetPkeyContent
    \/ GetCertPublicKey
    \/ Cleanup
    \/ EnvRemove
    \/ EnvAccess

-----------------------------------------------------------------------------
(* The HTTPS acceptor, custom-https.cpp *)

ConnIds == 1..MaxConns

NoCert == "none"
\* the certificates a client may present: one whose chain validates against
\* the context, one that does not
PeerCerts == {"trusted", "untrusted"}

\* X509_verify_cert's verdict, handed to the verify callback as `verified`
Preverified(cert) == cert = "trusted"

\* context.set_verify_mode(...), lines 38-39
verify_mode_optional == {"verify_peer", "verify_client_once"}

verify_mode == {"verify_peer", "verify_fail_if_no_peer_cert", "verify_client_once"}

verify_callback_strict(verified, ctx) == verified

\* context.set_verify_callback(...), lines 40-43: return 1
verify_callback(verified, ctx) == TRUE

\* The server side of the TLS handshake under the context's verify mode and
\* callback; wire: whether the exchange itself went through.
\* Gives the error code of the completion and the peer certificate the
\* session then holds.
ssl_handshake(peer, wire) ==
    IF wire # "finished" THEN [ec |-> "protocol_error", ssl_peer |-> NoCert]
    ELSE IF "verify_peer" \notin verify_mode THEN [ec |-> "ok", ssl_peer |-> NoCert]
    ELSE IF peer = NoCert
         THEN IF "verify_fail_if_no_peer_cert" \in verify_mode
              THEN [ec |-> "no_peer_cert", ssl_peer |-> NoCert]
              ELSE [ec |-> "ok", ssl_peer |-> NoCert]
         ELSE IF verify_callback(Preverified(peer), peer)
              THEN [ec |-> "ok", ssl_peer |-> peer]
              ELSE [ec |-> "verify_failed", ssl_peer |-> NoCert]

\* a connection create_connection() has not made yet
\* peer:     what the client presented in the TLS exchange, once it has run
\* timedout: the timeout handler closed it while its handshake was pending
\* tcancel:  cancel_timeout() was called on it
FreeConn ==
    [st |-> "free", acc |-> "idle", open |-> FALSE, peer |-> "unknown",
     hs |-> "idle", timer |-> "unset", ssl_peer |-> NoCert,
     read |-> FALSE, errs |-> 0, err |-> "",
     timedout |-> FALSE, tcancel |-> FALSE]

\* an accept() that issues two async_accept operations
accept_twice(cn, cr, isOpen) ==
    [k \in ConnIds |->
        IF k \in {cr + 1, cr + 2}
        THEN [FreeConn EXCEPT !.st = "accepting",
                              !.acc = IF isOpen THEN "pending" ELSE "error"]
        ELSE cn[k]]

\* accept(), lines 66-69: create_connection and async_accept on it; on a
\* closed acceptor the operation completes at once with an error
accept(cn, cr, isOpen) ==
    [cn EXCEPT ![cr + 1] = [FreeConn EXCEPT !.st = "accepting",
                                            !.acc = IF isOpen THEN "pending" ELSE "error"]]

\* Connection::set_timeout(seconds): no timer for 0 seconds
set_timeout(c, seconds) == [c EXCEPT !.timer = IF seconds = 0 THEN "unset" ELSE "armed"]

\* Connection::cancel_timeout(): a wait that has already expired is not cancelled
cancel_timeout(c) ==
    [c EXCEPT !.timer = IF c.timer = "armed" THEN "cancelled" ELSE c.timer,
              !.tcancel = TRUE]

\* a close() that shuts the socket down and leaves its operations pending
close_socketOnly(c) == [c EXCEPT !.open = FALSE]

\* Connection::close(): the socket is shut down, its pending operations are aborted
close(c) ==
    [c EXCEPT !.open = FALSE,
              !.hs = IF c.hs = "pending" THEN "aborted" ELSE c.hs]

on_error(c, ec) == [c EXCEPT !.errs = c.errs + 1, !.err = ec]

\* the last shared_ptr to a connection goes when its callback returns without
\* starting another operation: ~Connection takes the socket and the timer along
destroyed(c) == [c EXCEPT !.open = FALSE, !.timer = "unset"]

\* an accept callback that takes the next connection only after a failure:
\* after a success the next accept would wait for the handshake
accept_callback_serial(cn, cr, i, lock, isOpen) ==
    IF ~lock THEN [conn |-> [cn EXCEPT ![i] = destroyed([cn[i] EXCEPT !.st = "dropped"])],
                   created |-> cr]
    ELSE IF cn[i].acc = "ok"
         THEN [conn |-> [cn EXCEPT ![i] =
                            [set_timeout(cn[i], timeout_request)
                               EXCEPT !.hs = "pending", !.st = "handshaking"]],
               created |-> cr]
         ELSE LET rearm == cn[i].acc # "aborted"
                  cn1 == IF rearm THEN accept(cn, cr, isOpen) ELSE cn
              IN  [conn |-> [cn1 EXCEPT ![i] =
                                destroyed([on_error(cn[i], cn[i].acc)
                                             EXCEPT !.st = "accept_failed"])],
                   created |-> IF rearm THEN cr + 1 ELSE cr]

\* an accept callback that gives up accepting after a failed accept
accept_callback_rearmOnSuccessOnly(cn, cr, i, lock, isOpen) ==
    IF ~lock THEN [conn |-> [cn EXCEPT ![i] = destroyed([cn[i] EXCEPT !.st = "dropped"])],
                   created |-> cr]
    ELSE IF cn[i].acc = "ok"
         THEN [conn |-> [accept(cn, cr, isOpen) EXCEPT ![i] =
                            [set_timeout(cn[i], timeout_request)
                               EXCEPT !.hs = "pending", !.st = "handshaking"]],
               created |-> cr + 1]
         ELSE [conn |-> [cn EXCEPT ![i] =
                            destroyed([on_error(cn[i], cn[i].acc)
                                         EXCEPT !.st = "accept_failed"])],
               created |-> cr]

\* the accept callback, lines 69-98, on connection i whose accept completed
accept_callback(cn, cr, i, lock, isOpen) ==
    IF ~lock THEN [conn |-> [cn EXCEPT ![i] = destroyed([cn[i] EXCEPT !.st = "dropped"])],
                   created |-> cr]
    ELSE LET rearm == cn[i].acc # "aborted"
             cn1 == IF rearm THEN accept(cn, cr, isOpen) ELSE cn
             cr1 == IF rearm THEN cr + 1 ELSE cr
         IN  IF cn[i].acc = "ok"
             THEN [conn |-> [cn1 EXCEPT ![i] =
                                [set_timeout(cn[i], timeout_request)
                                   EXCEPT !.hs = "pending", !.st = "handshaking"]],
                   created |-> cr1]
             ELSE [conn |-> [cn1 EXCEPT ![i] =
                                destroyed([on_error(cn[i], cn[i].acc)
                                             EXCEPT !.st = "accept_failed"])],
                   created |-> cr1]

\* a handshake callback that starts read whatever the handshake gave
handshake_callback_readAlways(c, lock) ==
    LET c1 == cancel_timeout(c)
    IN  IF ~lock THEN destroyed([c1 EXCEPT !.st = "dropped"])
        ELSE IF c1.hs = "ok" THEN [c1 EXCEPT !.st = "established", !.read = TRUE]
        ELSE destroyed([on_error(c1, c1.hs) EXCEPT !.st = "handshake_failed",
                                                   !.read = TRUE])

\* a handshake callback that reports a failure before it asks for the lock
handshake_callback_errorBeforeLock(c, lock) ==
    LET c1 == cancel_timeout(c)
        c2 == IF c1.hs = "ok" THEN c1 ELSE on_error(c1, c1.hs)
    IN  IF ~lock THEN destroyed([c2 EXCEPT !.st = "dropped"])
        ELSE IF c2.hs = "ok" THEN [c2 EXCEPT !.st = "established", !.read = TRUE]
        ELSE destroyed([c2 EXCEPT !.st = "handshake_failed"])

\* a handshake callback that keeps a failure to itself
handshake_callback_silent(c, lock) ==
    LET c1 == cancel_timeout(c)
    IN  IF ~lock THEN destroyed([c1 EXCEPT !.st = "dropped"])
        ELSE IF c1.hs = "ok" THEN [c1 EXCEPT !.st = "established", !.read = TRUE]
        ELSE destroyed([c1 EXCEPT !.st = "handshake_failed"])

\* the handshake callback, lines 86-95
handshake_callback(c, lock) ==
    LET c1 == cancel_timeout(c)
    IN  IF ~lock THEN destroyed([c1 EXCEPT !.st = "dropped"])
        ELSE IF c1.hs = "ok" THEN [c1 EXCEPT !.st = "established", !.read = TRUE]
        ELSE destroyed([on_error(c1, c1.hs) EXCEPT !.st = "handshake_failed"])

\* get_client_cert(request), lines 102-105: SSL_get_peer_certificate
get_client_cert(c) == c.ssl_peer

\* no get_client_cert() call has just returned
NoGot == [conn |-> 0, cert |-> NoCert]

AcceptorInit ==
    /\ conn = [i \in ConnIds |-> FreeConn]
    /\ created = 0
    /\ started = FALSE
    /\ acceptorOpen = FALSE
    /\ stopped = FALSE
    /\ got = NoGot

\* ServerBase::start(): bind, listen, accept()
Start ==
    /\ ~started
    /\ ~stopped
    /\ started' = TRUE
    /\ acceptorOpen' = TRUE
    /\ conn' = accept(conn, created, TRUE)
    /\ created' = created + 1
    /\ got' = NoGot
    /\ UNCHANGED <<stopped, storeVars>>

\* a client connects, or the accept fails
AcceptDone(i) ==
    /\ conn[i].st = "accepting"
    /\ conn[i].acc = "pending"
    /\ acceptorOpen
    /\ \/ conn' = [conn EXCEPT ![i].acc = "ok", ![i].open = TRUE]
       \/ conn' = [conn EXCEPT ![i].acc = "error"]
    /\ got' = NoGot
    /\ UNCHANGED <<created, started, acceptorOpen, stopped, storeVars>>

AcceptCallback(i) ==
    /\ conn[i].st = "accepting"
    /\ conn[i].acc \in {"ok", "error", "aborted"}
    /\ (~stopped /\ conn[i].acc # "aborted") => created < MaxConns
    /\ LET r == accept_callback(conn, created, i, ~stopped, acceptorOpen)
       IN  /\ conn' = r.conn
           /\ created' = r.created
    /\ got' = NoGot
    /\ UNCHANGED <<started, acceptorOpen, stopped, storeVars>>

\* the TLS exchange with the peer comes to its end: the client has sent its
\* certificate, or none, or the exchange broke before that
HandshakeDone(i) ==
    /\ conn[i].st = "handshaking"
    /\ conn[i].hs = "pending"
    /\ \/ \E peer \in PeerCerts \cup {NoCert} :
             LET r == ssl_handshake(peer, "finished")
             IN  conn' = [conn EXCEPT ![i].hs = r.ec, ![i].ssl_peer = r.ssl_peer,
                                      ![i].peer = peer]
       \/ LET r == ssl_handshake(NoCert, "protocol_error")
          IN  conn' = [conn EXCEPT ![i].hs = r.ec, ![i].ssl_peer = r.ssl_peer]
    /\ got' = NoGot
    /\ UNCHANGED <<created, started, acceptorOpen, stopped, storeVars>>

\* the handshake timer runs out: its handler is queued
TimerExpire(i) ==
    /\ conn[i].timer = "armed"
    /\ conn[i].st \in {"handshaking", "established"}
    /\ conn' = [conn EXCEPT ![i].timer = "expired"]
    /\ got' = NoGot
    /\ UNCHANGED <<created, started, acceptorOpen, stopped, storeVars>>

\* the timer handler of Connection::set_timeout: close() the connection if it
\* is still there
TimerHandler(i) ==
    /\ conn[i].timer = "expired"
    /\ conn[i].st \in {"handshaking", "established"}
    /\ conn' = [conn EXCEPT ![i] = [close(conn[i]) EXCEPT
                   !.timer = "fired",
                   !.timedout = (conn[i].hs = "pending"),
                   !.st = IF conn[i].st = "established" THEN "closed" ELSE conn[i].st]]
    /\ got' = NoGot
    /\ UNCHANGED <<created, started, acceptorOpen, stopped, storeVars>>

HandshakeCallback(i) ==
    /\ conn[i].st = "handshaking"
    /\ conn[i].hs \notin {"idle", "pending"}
    /\ conn' = [conn EXCEPT ![i] = handshake_callback(conn[i], ~stopped)]
    /\ got' = NoGot
    /\ UNCHANGED <<created, started, acceptorOpen, stopped, storeVars>>

\* a resource handler, or the error callback, asks for the peer certificate
GetClientCert(i) ==
    /\ conn[i].st \in {"established", "handshake_failed"}
    /\ got' = [conn |-> i, cert |-> get_client_cert(conn[i])]
    /\ UNCHANGED <<conn, created, started, acceptorOpen, stopped, storeVars>>

\* the request pipeline of an established connection comes to its end
ConnectionClose(i) ==
    /\ conn[i].st = "established"
    /\ conn' = [conn EXCEPT ![i] = destroyed([conn[i] EXCEPT !.st = "closed"])]
    /\ got' = NoGot
    /\ UNCHANGED <<created, started, acceptorOpen, stopped, storeVars>>

\* ServerBase::stop(): the acceptor is closed, which aborts the pending
\* accept, and every connection is closed
StopEffect(cn) ==
    [i \in ConnIds |->
        IF cn[i].st = "accepting" /\ cn[i].acc = "pending"
        THEN [cn[i] EXCEPT !.acc = "aborted"]
        ELSE IF cn[i].st \in {"handshaking", "established"}
             THEN close(cn[i])
             ELSE cn[i]]

Stop ==
    /\ started
    /\ acceptorOpen
    /\ acceptorOpen' = FALSE
    /\ conn' = StopEffect(conn)
    /\ got' = NoGot
    /\ UNCHANGED <<created, started, stopped, storeVars>>

\* ~ServerBase(): handler_runner->stop(), then stop()
Destroy ==
    /\ started
    /\ ~stopped
    /\ stopped' = TRUE
    /\ acceptorOpen' = FALSE
    /\ conn' = IF acceptorOpen THEN StopEffect(conn) ELSE conn
    /\ got' = NoGot
    /\ UNCHANGED <<created, started, storeVars>>

AcceptorNext ==
    \/ Start
    \/ \E i \in ConnIds : AcceptDone(i)
    \/ \E i \in ConnIds : AcceptCallback(i)
    \/ \E i \in ConnIds : HandshakeDone(i)
    \/ \E i \in ConnIds : TimerExpire(i)
    \/ \E i \in ConnIds : TimerHandler(i)
    \/ \E i \in ConnIds : HandshakeCallback(i)
    \/ \E i \in ConnIds : GetClientCert(i)
    \/ \E i \in ConnIds : ConnectionClose(i)
    \/ Stop
    \/ Destroy

-----------------------------------------------------------------------------
(* Specifications *)

Init == StoreInit /\ AcceptorInit

\* the identity store runs once, at process start, before the server exists
SpecStore == Init /\ [][StoreNext]_vars

\* the server is constructed from the files of an identity already in place
SpecAcceptor == Init /\ [][AcceptorNext]_vars

-----------------------------------------------------------------------------
(* Identity store: properties *)

Present(p) == Stat(files, access, p) = "found"
Absent(p) == Stat(files, access, p) = "not_found"

\* C1: cert_exists returns true if and only if both the key file and the
\* certificate file are present; in each of the four presence combinations
\* it returns false when neither or exactly one is present and true when
\* both are; and it changes no file.
C1_ExistsIffBothPresent ==
    [][op'.name = "cert_exists" =>
          /\ files' = files
          /\ (ret' = "true") <=> (Present(KeyPath) /\ Present(CertPath))
          /\ (\A p \in Paths : Present(p) \/ Absent(p)) =>
                ret' = RetOfBool(Present(KeyPath) /\ Present(CertPath))]_vars

\* cert_exists has just answered false with exactly one of the files there
C1_Witness ==
    /\ op.name = "cert_exists"
    /\ ret = "false"
    /\ Present(KeyPath)
    /\ Absent(CertPath)

\* C2: write_to_disk returns true only if the key file and the certificate
\* file were both opened and fully written, and it returns false at each of
\* its four failure points.
C2_TrueOnlyIfBothFullyWritten ==
    op.name = "write_to_disk" =>
        /\ ret = "true" =>
              /\ files[KeyPath] = FileOf(PEM_PrivateKey(pkey))
              /\ files[CertPath] = FileOf(PEM_X509(x509))
        /\ point \in {"key_open", "key_write", "cert_open", "cert_write"} => ret = "false"

\* C3: when write_to_disk has written the key file and then fails to open or
\* to write the certificate file, it returns false and the key file is still
\* on disk with its full content.
C3_NoRollbackOfKeyFile ==
    (/\ op.name = "write_to_disk"
     /\ op.kio = "ok"
     /\ point \in {"cert_open", "cert_write"}) =>
        /\ ret = "false"
        /\ files[KeyPath] = FileOf(PEM_PrivateKey(pkey))
        /\ PEM_PrivateKey(pkey) # NoPem

\* the certificate write has just failed after a good key write
C3_Witness ==
    /\ op.name = "write_to_disk"
    /\ op.kio = "ok"
    /\ point = "cert_write"
    /\ ret = "false"
    /\ files[KeyPath].pem.terminated

\* C4: after write_to_disk returns true, pkey_from_file and cert_from_file on
\* the two written paths return non-null objects whose encoded forms
\* (get_pkey_content, get_cert_public_key) are those of the originals.
C4_RoundTrip ==
    /\ (persisted /\ op.name = "pkey_from_file" /\ op.path = KeyPath) =>
          /\ obj # NULL
          /\ get_pkey_content(obj).text = get_pkey_content(pkey).text
    /\ (persisted /\ op.name = "cert_from_file" /\ op.path = CertPath) =>
          /\ obj # NULL
          /\ get_cert_public_key(obj).text = get_cert_public_key(x509).text

\* C5: generate_key returns a non-null key only when it holds a generated
\* RSA key of 2048 bits with exponent F4, and returns null, without raising,
\* whenever an allocation or the key generation fails.
C5_NonNullKeyIsGenerated ==
    op.name = "generate_key" =>
        /\ pkey # NULL =>
              /\ HasKey(pkey.rsa)
              /\ pkey.rsa.bits = RSA_BITS
              /\ pkey.rsa.e = RSA_F4
        /\ (op.kio = "alloc_fail" \/ op.cio = "gen_fail") => ret = "null"

\* valid PEM material of the kind asked for
IsCertText(pem) == pem.label = "CERTIFICATE" /\ pem.terminated
IsKeyText(pem) == pem.label = "PRIVATE KEY" /\ pem.terminated

\* C6: cert_from_file, pkey_from_file and cert_from_string return null both
\* when the source cannot be opened and when its content is not valid PEM
\* material, and a non-null object only when the source opened and parsed.
C6_NullOnOpenOrParseFailure ==
    /\ op.name = "cert_from_file" =>
          (obj # NULL <=> (CanRead(files, access, op.path) /\ IsCertText(files[op.path].pem)))
    /\ op.name = "pkey_from_file" =>
          (obj # NULL <=> (CanRead(files, access, op.path) /\ IsKeyText(files[op.path].pem)))
    /\ op.name = "cert_from_string" =>
          (obj # NULL <=> IsCertText(op.text))
    /\ op.name \in {"cert_from_file", "pkey_from_file", "cert_from_string"} =>
          ret = (IF obj = NULL THEN "null" ELSE "object")

\* a certificate file that opens and does not parse has just given null,
\* as a file that cannot be opened does
C6_Witness ==
    /\ op.name = "cert_from_file"
    /\ CanRead(files, access, op.path)
    /\ files[op.path].pem.label = "CERTIFICATE"
    /\ ~files[op.path].pem.terminated
    /\ obj = NULL

C8_NoExceptionEscapes ==
    op.name \in {"generate_key", "generate_x509", "cert_from_file", "pkey_from_file",
                 "cert_from_string", "write_to_disk", "cert_exists"} =>
        ret # "throw"

\* what cert_exists on the two paths gives in this state
ExistsNow == cert_exists(files, access, KeyPath, CertPath)

\* C19, as stated: starting with neither file on disk, whenever write_to_disk
\* returns false, at any of its failure points, cert_exists on the same two
\* paths returns false right afterwards; and whenever write_to_disk returns
\* true, cert_exists returns true.
C19_FailedPersistDoesNotExist ==
    (op.name = "write_to_disk" /\ fresh) =>
        /\ ret = "false" => ExistsNow = "false"
        /\ ret = "true" => ExistsNow = "true"

\* C19, amended: starting with neither file on disk, when write_to_disk
\* returns false at the key open, the key write or the certificate open,
\* cert_exists right afterwards does not return true (it returns false, or
\* throws where the status of a path cannot be read); when write_to_disk
\* returns false at the certificate write, both files are on disk, the
\* certificate file not fully written, and cert_exists returns true; and
\* whenever write_to_disk returns true, cert_exists returns true.
C19_FailedPersistExistsAfterCertWrite ==
    (op.name = "write_to_disk" /\ fresh) =>
        /\ ret = "false" <=> point \in {"key_open", "key_write", "cert_open", "cert_write"}
        /\ point \in {"key_open", "key_write", "cert_open"} =>
              /\ ExistsNow # "true"
              /\ ~files[CertPath].exists
        /\ point = "cert_write" =>
              /\ ExistsNow = "true"
              /\ Present(KeyPath) /\ Present(CertPath)
              /\ files[CertPath].pem # PEM_X509(x509) \/ PEM_X509(x509) = NoPem
        /\ ret = "true" => ExistsNow = "true"

\* from an empty directory, the certificate write failed, write_to_disk
\* returned false, and cert_exists says the identity exists
C19_Witness ==
    /\ op.name = "write_to_disk"
    /\ fresh
    /\ point = "cert_write"
    /\ ret = "false"
    /\ ExistsNow = "true"

\* C20, as stated: every temporary object an operation acquires for its own
\* use is released before the operation returns, on every exit path: after
\* any call that returned, nothing but what the caller was given is live.
C20_TemporariesReleased ==
    (op.name \in {"cert_from_file", "pkey_from_file", "generate_key",
                  "get_pkey_content", "get_cert_public_key"}
       /\ ret # "crash") =>
        leaked = {}

-----------------------------------------------------------------------------
(* Acceptor: properties *)

\* connection i was accepted from a peer presenting no / some certificate
AcceptedWithout(i) == conn[i].acc = "ok" /\ conn[i].peer = NoCert
AcceptedWith(i) == conn[i].acc = "ok" /\ conn[i].peer \in PeerCerts

\* the TLS exchange of connection i ran to its end, nothing cut it off
ExchangeRan(i) == conn[i].hs \notin {"idle", "pending", "protocol_error", "aborted"}

\* C9, as stated: a connection whose peer presents no client certificate
\* completes the TLS handshake (Established, the read pipeline, not
\* HandshakeFailed), and get_client_cert on it gives an absent result.
C9_NoCertCompletesHandshake ==
    \A i \in ConnIds :
        AcceptedWithout(i) =>
            /\ ExchangeRan(i) => conn[i].hs = "ok"
            /\ conn[i].st # "handshake_failed" \/ ~ExchangeRan(i)
            /\ got.conn = i => got.cert = NoCert

\* C9, amended: a connection whose peer presents no client certificate never
\* completes the TLS handshake: its handshake ends with an error, which the
\* handshake callback hands to the error callback once; read is never started
\* on it; get_client_cert on it gives an absent result.
C9_NoCertFailsHandshake ==
    \A i \in ConnIds :
        AcceptedWithout(i) =>
            /\ conn[i].hs # "ok"
            /\ ~conn[i].read
            /\ conn[i].st \notin {"established", "closed"}
            /\ conn[i].st = "handshake_failed" => conn[i].errs = 1
            /\ got.conn = i => got.cert = NoCert

\* a peer without certificate ran the exchange to its end, the handshake
\* failed for the missing certificate, and the error callback asked for it
C9_Witness ==
    \E i \in ConnIds :
        /\ AcceptedWithout(i)
        /\ conn[i].st = "handshake_failed"
        /\ conn[i].err = "no_peer_cert"
        /\ got = [conn |-> i, cert |-> NoCert]

\* C10: a connection whose peer presents a certificate, trusted or not, is
\* never rejected by the verification step: the verify callback accepts
\* whatever the chain validation said, the handshake fails only when the
\* exchange itself breaks or is aborted, and get_client_cert on the
\* established connection gives the certificate the peer presented.
C10_AnyCertAccepted ==
    /\ \A verified \in BOOLEAN, cert \in PeerCerts : verify_callback(verified, cert)
    /\ \A i \in ConnIds :
          AcceptedWith(i) =>
              /\ conn[i].hs \notin {"verify_failed", "no_peer_cert"}
              /\ conn[i].st = "handshake_failed" =>
                    conn[i].err \in {"protocol_error", "aborted"}
              /\ conn[i].read => conn[i].ssl_peer = conn[i].peer
              /\ (got.conn = i /\ conn[i].read) => got.cert = conn[i].peer

\* a peer whose certificate fails chain validation is established, and a
\* resource handler got that very certificate
C10_Witness ==
    \E i \in ConnIds :
        /\ conn[i].peer = "untrusted"
        /\ ~Preverified(conn[i].peer)
        /\ conn[i].st = "established"
        /\ got = [conn |-> i, cert |-> "untrusted"]

\* C11, as stated: for every accepted connection whose handshake does not
\* complete within the timeout, the error callback is invoked exactly once
\* with a timeout-classified error, read is never started on it, and the
\* connection is closed, not left open.
C11_TimeoutReportedOnce ==
    \A i \in ConnIds :
        conn[i].timedout =>
            /\ ~conn[i].read
            /\ ~conn[i].open
            /\ conn[i].st # "handshaking" =>
                  conn[i].errs = 1 /\ conn[i].err = "timed_out"

\* C11, amended: a connection the timeout handler closes while its handshake
\* is pending has its handshake aborted; read is never started on it and its
\* socket is closed from then on; the handshake callback hands the abort
\* (operation_aborted, the code a server stop gives too) to the error
\* callback once, unless the server is being destroyed by then, and then the
\* error callback is not invoked at all.
C11_TimeoutAbortsHandshake ==
    \A i \in ConnIds :
        conn[i].timedout =>
            /\ ~conn[i].read
            /\ ~conn[i].open
            /\ conn[i].hs = "aborted"
            /\ conn[i].st \in {"handshaking", "handshake_failed", "dropped"}
            /\ conn[i].st = "handshaking" => conn[i].errs = 0
            /\ conn[i].st = "handshake_failed" =>
                  conn[i].errs = 1 /\ conn[i].err = "aborted"
            /\ conn[i].st = "dropped" => conn[i].errs = 0 /\ stopped

\* a handshake ran into the timeout and the error callback got the abort
C11_Witness ==
    \E i \in ConnIds :
        /\ conn[i].timedout
        /\ conn[i].st = "handshake_failed"
        /\ conn[i].errs = 1
        /\ conn[i].err = "aborted"
        /\ ~stopped

\* the handshake of connection i ended with an error of any cause
HandshakeFailedOn(i) ==
    conn[i].hs \in {"no_peer_cert", "verify_failed", "protocol_error", "aborted"}

\* C12, as stated: every handshake failure, of any cause, is delivered to the
\* error callback exactly once, never zero times (also when the server is
\* shutting down while the handshake is pending), never more than once.
C12_FailureDeliveredOnce ==
    \A i \in ConnIds :
        (HandshakeFailedOn(i) /\ conn[i].st # "handshaking") => conn[i].errs = 1

\* C12, amended: every handshake failure, of any cause, is delivered to the
\* error callback exactly once when the handshake callback gets the
\* continuation lock, and not at all when the server is being destroyed by
\* then; never more than once; the connection is not handshaken again and
\* read is never started on it.
C12_FailureDeliveredOnceUnlessDestroyed ==
    [][\A i \in ConnIds :
          /\ conn'[i].errs <= 1
          /\ (HandshakeFailedOn(i)' /\ conn'[i].st # "handshaking") =>
                /\ ~conn'[i].read
                /\ \/ /\ conn'[i].st = "handshake_failed"
                      /\ conn'[i].errs = 1
                      /\ conn'[i].err = conn'[i].hs
                   \/ /\ conn'[i].st = "dropped"
                      /\ conn'[i].errs = 0
                      /\ stopped'
          /\ conn[i].st \in {"handshake_failed", "dropped"} => conn'[i] = conn[i]
      ]_vars

\* a protocol error on the wire reached the error callback, once
C12_Witness ==
    \E i \in ConnIds :
        /\ conn[i].hs = "protocol_error"
        /\ conn[i].st = "handshake_failed"
        /\ conn[i].errs = 1
        /\ conn[i].err = "protocol_error"

\* the server is up: neither stop() nor the destructor has run
Running == started /\ acceptorOpen /\ ~stopped

\* C13: no head-of-line blocking. While connection i is handshaking, the
\* accept of the next connection has already been armed, and whatever another
\* connection j is waiting for (a client, its accept callback, the end of its
\* TLS exchange, its handshake callback) can happen without connection i
\* doing anything: j can be accepted and established on its own.
C13_NoHeadOfLineBlocking ==
    \A i \in ConnIds :
        conn[i].st = "handshaking" =>
            /\ created > i
            /\ conn[i + 1].st # "free"
            /\ \A j \in ConnIds \ {i} :
                  /\ (conn[j].st = "accepting" /\ conn[j].acc = "pending" /\ Running)
                        => ENABLED AcceptDone(j)
                  /\ (conn[j].st = "accepting" /\ conn[j].acc = "ok"
                                              /\ created < MaxConns)
                        => ENABLED AcceptCallback(j)
                  /\ (conn[j].st = "handshaking" /\ conn[j].hs = "pending")
                        => ENABLED HandshakeDone(j)
                  /\ (conn[j].st = "handshaking" /\ conn[j].hs = "ok")
                        => ENABLED HandshakeCallback(j)

\* a later connection is established and open while an earlier one is still
\* in its TLS exchange
C13_Witness ==
    \E i, j \in ConnIds :
        /\ i < j
        /\ conn[i].st = "handshaking"
        /\ conn[i].hs = "pending"
        /\ conn[j].st = "established"
        /\ conn[j].open

\* the accept callback of connection i ran with the continuation lock in
\* this step
AcceptCallbackRan(i) ==
    /\ conn[i].st = "accepting"
    /\ conn'[i].st \in {"handshaking", "accept_failed"}

\* this step armed the accept of the next connection, once
Rearmed ==
    /\ created' = created + 1
    /\ conn'[created + 1].st = "accepting"

\* C14, as stated: whatever the outcome of an accept, success or any accept
\* error, the accept callback re-arms acceptance, in the step that starts the
\* connection's handshake; so while the server is not shutting down an
\* accept is armed whenever a handshake is pending.
C14_RearmOnAnyOutcome ==
    [][/\ \A i \in ConnIds : AcceptCallbackRan(i) => Rearmed
       /\ (Running' /\ \E i \in ConnIds : conn'[i].st = "handshaking")
             => \E j \in ConnIds : conn'[j].st = "accepting"
      ]_vars

\* C14, amended: whatever the outcome of an accept, success or any accept
\* error other than operation_aborted, the accept callback re-arms acceptance,
\* in the step that starts the connection's handshake; after an aborted
\* accept it does not re-arm; so while the server is not shutting down an
\* accept is armed whenever a handshake is pending.
C14_RearmUnlessAborted ==
    [][/\ \A i \in ConnIds :
             AcceptCallbackRan(i) =>
                 IF conn[i].acc = "aborted" THEN created' = created ELSE Rearmed
       /\ (Running' /\ \E i \in ConnIds : conn'[i].st = "handshaking")
             => \E j \in ConnIds : conn'[j].st = "accepting"
      ]_vars

\* a failed accept has been reported and the next accept is armed, while an
\* earlier connection is in its handshake
C14_Witness ==
    \E i, j, k \in ConnIds :
        /\ i < j /\ j < k
        /\ conn[i].st = "handshaking"
        /\ conn[j].st = "accept_failed"
        /\ conn[j].err = "error"
        /\ conn[k].st = "accepting"
        /\ Running

\* C15: per-connection ordering. A handshake is started only after that
\* connection's accept succeeded; read is started only after that
\* connection's handshake completed successfully, and in the handshake
\* callback; read is never started on a connection whose accept or handshake
\* failed. Nothing orders the steps of different connections.
C15_PerConnectionOrdering ==
    [][\A i \in ConnIds :
          /\ conn'[i].hs # "idle" => conn'[i].acc = "ok"
          /\ conn'[i].read => conn'[i].hs = "ok" /\ conn'[i].acc = "ok"
          /\ (conn'[i].acc \in {"error", "aborted"} \/ HandshakeFailedOn(i)')
                => ~conn'[i].read
          /\ (conn[i].hs = "idle" /\ conn'[i].hs # "idle")
                => conn[i].acc = "ok" /\ conn[i].st = "accepting"
          /\ (~conn[i].read /\ conn'[i].read)
                => conn[i].hs = "ok" /\ conn[i].st = "handshaking"
      ]_vars

\* read runs on a later connection while an earlier one has not finished its
\* handshake, and a connection between them failed
C15_Witness ==
    \E i, j \in ConnIds :
        /\ i < j
        /\ conn[i].st = "handshaking"
        /\ conn[j].read
        /\ conn[j].hs = "ok"
        /\ \E k \in ConnIds : conn[k].st \in {"handshake_failed", "accept_failed"}

\* a callback of connection i found the continuation lock gone in this step
Dropped(i) == conn[i].st # "dropped" /\ conn'[i].st = "dropped"

\* nothing but the end of the connection came of the step for connection i
NoOperation(i) ==
    /\ created' = created
    /\ conn'[i].hs = conn[i].hs
    /\ conn'[i].read = conn[i].read
    /\ conn'[i].errs = conn[i].errs
    /\ \A k \in ConnIds \ {i} : conn'[k] = conn[k]

\* C16, as stated: the accept callback and the handshake callback take the
\* continuation lock first; when it cannot be taken the callback returns
\* without any operation: no timeout change, no re-arming of accept, no
\* handshake start, no read, no error callback.
C16_NoOperationWithoutLock ==
    [][\A i \in ConnIds :
          Dropped(i) => NoOperation(i) /\ conn'[i].tcancel = conn[i].tcancel
      ]_vars

\* C16, amended: the accept callback takes the continuation lock first; the
\* handshake callback cancels the connection's timeout and then takes the
\* lock; when the lock cannot be taken the callback returns without any
\* further operation: no re-arming of accept, no handshake start, no read, no
\* error callback, and in the accept callback no timeout change.
C16_NoOperationButCancelWithoutLock ==
    [][\A i \in ConnIds :
          Dropped(i) =>
              /\ stopped
              /\ NoOperation(i)
              /\ conn[i].st = "accepting" => ~conn'[i].tcancel /\ conn'[i].hs = "idle"
              /\ conn[i].st = "handshaking" => conn'[i].tcancel /\ ~conn[i].tcancel
              /\ conn[i].st \in {"accepting", "handshaking"}
      ]_vars

\* both callbacks have found the lock gone: one connection was dropped by its
\* accept callback, another by its handshake callback after a failed handshake
C16_Witness ==
    \E i, j \in ConnIds :
        /\ conn[i].st = "dropped" /\ conn[i].acc = "ok" /\ HandshakeFailedOn(i)
        /\ conn[i].tcancel /\ conn[i].errs = 0
        /\ conn[j].st = "dropped" /\ conn[j].hs = "idle" /\ ~conn[j].tcancel
        /\ stopped

\* C17, as stated: the handshake timeout is cancelled when the handshake
\* completes, before read is started: the timeout handler never runs on a
\* connection after its handshake callback has run, so an established
\* connection is never torn down by the handshake timer.
C17_NoTimeoutAfterHandshakeCallback ==
    \A i \in ConnIds :
        /\ conn[i].read => conn[i].tcancel
        /\ ~(conn[i].st = "closed" /\ conn[i].timer = "fired")

\* C18: at most one asynchronous accept is outstanding at any time; accept
\* is armed by start() and by the accept callback of the previous accept, at
\* most once per completion, and never by a handshake callback.
C18_OneAcceptOutstanding ==
    [][/\ Cardinality({i \in ConnIds : conn'[i].st = "accepting"}) <= 1
       /\ created' # created =>
             /\ created' = created + 1
             /\ \/ ~started /\ started'
                \/ \E i \in ConnIds : AcceptCallbackRan(i)
       /\ \A i \in ConnIds :
             (conn[i].st = "handshaking" /\ conn'[i].st # "handshaking")
                => created' = created
      ]_vars

\* the accept callback of one connection has armed the accept of the next
\* while an earlier handshake callback has run: one accept is outstanding
C18_Witness ==
    /\ created = MaxConns
    /\ Cardinality({i \in ConnIds : conn[i].st = "accepting"}) = 1
    /\ \E i \in ConnIds : conn[i].st = "established"
    /\ \E i \in ConnIds : conn[i].st = "handshaking"

====
